---- MODULE Spec2Model ----
(***************************************************************************)
(* A model of two pieces of Substrate:                                     *)
(*   - client/cli/src/config.rs: CliConfiguration::create_configuration    *)
(*     (the defaulting cascade of the facet queries) and                   *)
(*     generate_node_name;                                                 *)
(*   - primitives/tracing/src/lib.rs: WASM_TRACING_ENABLED and the macros  *)
(*     tracing_span!, enter_span! and if_tracing!.                         *)
(*                                                                         *)
(* Strings that are used as paths or names are sequences of one-character  *)
(* strings, so that PathBuf::join and chars().count() are computed and not *)
(* assumed.                                                                *)
(***************************************************************************)
EXTENDS Integers, Sequences, FiniteSets, TLC

VARIABLES
    \* ---- create_configuration (config.rs:218-284) ----
    source,      \* what the implementor's required methods answer (no provided body)
    platform,    \* what app_dirs::get_app_root answers on this platform
    pc,          \* the statement create_configuration is at
    env,         \* its local variables and the struct-literal fields evaluated so far
    calls,       \* every query made so far: [fn, args, ret, overridden]
    outcome,     \* <<"Running">>, <<"Ok", Configuration>>, <<"Err", e>> or <<"Panic", msg>>
    \* ---- generate_node_name (config.rs:297-308) ----
    gpc,         \* "loop", "check" or "done"
    node_name,   \* the candidate of the current iteration
    sampled,     \* the candidates the name source has produced so far
    result,      \* the returned name
    \* ---- WASM_TRACING_ENABLED (tracing/src/lib.rs:43-45) ----
    WASM_TRACING_ENABLED,  \* the process-wide atomic flag
    stores,      \* how many times the flag has been stored to
    loads,       \* per thread, the values its loads of the flag returned
    \* ---- code under tracing_span! / enter_span! (tracing/src/lib.rs:60-103) ----
    program,     \* the function body under test, macros not yet expanded
    run,         \* which build of the program runs: an index into Builds
    stack,       \* the lexical scopes being executed: [code, locals]
    mode,        \* "idle", "run", "return" (early return) or "panic" (unwinding)
    active,      \* the thread's stack of entered spans
    trace,       \* what the tracing runtime has been told: new/enter/exit/close
    effects,     \* the side effects the code has had in this run
    ret,         \* the result of this run
    runs         \* the finished runs: [build, effects, ret, trace, enabled]

cfgVars  == <<source, platform, pc, env, calls, outcome>>
nameVars == <<gpc, node_name, sampled, result>>
flagVars == <<WASM_TRACING_ENABLED, stores, loads>>
spanVars == <<program, run, stack, mode, active, trace, effects, ret, runs>>
vars     == <<source, platform, pc, env, calls, outcome, gpc, node_name, sampled,
              result, WASM_TRACING_ENABLED, stores, loads, program, run, stack,
              mode, active, trace, effects, ret, runs>>

(***************************************************************************)
(* Values                                                                  *)
(***************************************************************************)
Ok(v)   == <<"Ok", v>>
Err(e)  == <<"Err", e>>
Some(v) == <<"Some", v>>
None    == <<"None">>
IsOk(r)  == r[1] = "Ok"
IsErr(r) == r[1] = "Err"

\* Option::unwrap_or
unwrap_or(o, d) == IF o[1] = "Some" THEN o[2] ELSE d

\* Default::default() of an opaque type
Default(type) == <<"Default", type>>

(***************************************************************************)
(* Paths (std::path::PathBuf on a Unix target)                             *)
(***************************************************************************)
\* Path::is_absolute
IsAbsolute(p) == Len(p) > 0 /\ p[1] = "/"

\* Path::join, i.e. PathBuf::push on a clone: an absolute argument replaces
\* the path, otherwise a separator is added when the path does not end in one.
PathJoin(p, q) ==
    IF IsAbsolute(q) THEN q
    ELSE IF Len(p) > 0 /\ p[Len(p)] # "/" THEN p \o <<"/">> \o q
    ELSE p \o q

\* The components of a path, which is what PathBuf's equality compares:
\* repeated and trailing separators do not count.
RECURSIVE Split(_, _, _)
Split(s, cur, acc) ==
    IF s = <<>> THEN (IF cur = <<>> THEN acc ELSE Append(acc, cur))
    ELSE IF Head(s) = "/"
         THEN Split(Tail(s), <<>>, IF cur = <<>> THEN acc ELSE Append(acc, cur))
         ELSE Split(Tail(s), Append(cur, Head(s)), acc)

Components(p) == [root |-> IsAbsolute(p), parts |-> Split(p, <<>>, <<>>)]

CHAINS == <<"c", "h", "a", "i", "n", "s">>

\* DEFAULT_NETWORK_CONFIG_PATH
DEFAULT_NETWORK_CONFIG_PATH == <<"n", "e", "t", "w", "o", "r", "k">>

(***************************************************************************)
(* The inputs of create_configuration                                      *)
(***************************************************************************)
\* How many of the optional facets the override source may override in one
\* call (answer with its own value or with an error).
MaxOverridden == 2

\* Base paths a caller may supply: "/d/n1" and the relative "b/".
BasePaths == { <<"/", "d", "/", "n", "1">>, <<"b", "/">> }

\* What app_dirs::get_app_root returns when it succeeds: "/h/app".
DefaultRoot == <<"/", "h", "/", "a", "p", "p">>

\* Chain specifications: an id that is a plain name ("tn") and one that is
\* an absolute path ("/e"); telemetry_endpoints() of the chain spec.
ChainSpecs ==
    { [id |-> <<"t", "n">>, telemetry_endpoints |-> None],
      [id |-> <<"/", "e">>, telemetry_endpoints |-> Some("wss")] }

\* A name of n characters.
Name(n) == [i \in 1..n |-> "a"]

\* The maximum number of characters for a node name.
NODE_NAME_MAX_LENGTH == 32

\* Candidates the name source (names::Generator, Name::Numbered) can produce.
Candidates == { Name(5), Name(31), Name(32), Name(33) }

\* String::chars().count()
chars_count(s) == Len(s)

\* What generate_node_name can return.
GeneratedNames == { c \in Candidates : chars_count(c) < NODE_NAME_MAX_LENGTH }

(***************************************************************************)
(* The trait's provided methods (config.rs:47-215)                         *)
(***************************************************************************)
\* The set of values the provided (default) body of a facet query can
\* return for the given arguments: one value, except for node_name, whose
\* default is a freshly generated name.
DefaultImpl(facet, args) ==
    CASE facet = "is_dev"                       -> {FALSE}
      [] facet = "roles"                        -> {"FULL"}
      [] facet = "transaction_pool"             -> {Default("TransactionPoolOptions")}
      [] facet = "network_config"               ->
            \* NetworkConfiguration::new(node_name, client_id, node_key, net_config_dir)
            {[node_name |-> args[5], client_id |-> args[4],
              node_key |-> args[6], net_config_dir |-> args[3]]}
      [] facet = "keystore_config"              -> {"InMemory"}
      [] facet = "database_cache_size"          -> {None}
      [] facet = "state_cache_size"             -> {0}
      [] facet = "state_cache_child_ratio"      -> {None}
      [] facet = "pruning"                      -> {Default("PruningMode")}
      [] facet = "node_name"                    -> GeneratedNames
      [] facet = "wasm_method"                  -> {Default("WasmExecutionMethod")}
      [] facet = "execution_strategies"         -> {Default("ExecutionStrategies")}
      [] facet = "rpc_http"                     -> {None}
      [] facet = "rpc_ws"                       -> {None}
      [] facet = "rpc_ws_max_connections"       -> {None}
      [] facet = "rpc_cors"                     -> {Some(<<>>)}
      [] facet = "prometheus_config"            -> {None}
      [] facet = "telemetry_endpoints"          -> {args[1].telemetry_endpoints}
      [] facet = "telemetry_external_transport" -> {None}
      [] facet = "default_heap_pages"           -> {None}
      [] facet = "offchain_worker"              -> {FALSE}
      [] facet = "sentry_mode"                  -> {FALSE}
      [] facet = "force_authoring"              -> {FALSE}
      [] facet = "disable_grandpa"              -> {FALSE}
      [] facet = "dev_key_seed"                 -> {None}
      [] facet = "tracing_targets"              -> {None}
      [] facet = "tracing_receiver"             -> {Default("TracingReceiver")}
      [] facet = "node_key"                     -> {Default("NodeKeyConfig")}
      [] facet = "max_runtime_instances"        -> {None}

\* The values an implementor's own body of a facet query returns here.
OverrideValues(facet) ==
    CASE facet = "is_dev"                -> {TRUE}
      [] facet = "roles"                 -> {"AUTHORITY"}
      [] facet = "database_cache_size"   -> {Some(256), Some(0)}
      [] facet = "max_runtime_instances" -> {Some(1)}
      [] facet = "node_name"             -> {Name(3)}
      [] facet = "network_config"        ->
            {[node_name |-> Name(3), client_id |-> "own",
              node_key |-> <<"own", "node_key">>, net_config_dir |-> <<"o">>]}
      [] facet = "keystore_config"       -> {"Path"}
      [] facet \in {"offchain_worker", "sentry_mode", "force_authoring",
                    "disable_grandpa"}   -> {TRUE}
      [] facet = "state_cache_size"      -> {64}
      [] facet = "rpc_cors"              -> {Some(<<"*">>), None}
      [] facet \in {"state_cache_child_ratio", "rpc_http", "rpc_ws",
                    "rpc_ws_max_connections", "prometheus_config",
                    "telemetry_endpoints", "telemetry_external_transport",
                    "default_heap_pages", "dev_key_seed", "tracing_targets"}
                                         -> {Some("own")}
      [] OTHER                           -> {<<"own", facet>>}

\* The number of queries so far that an implementor's own body answered.
OverrideCount == Cardinality({i \in DOMAIN calls : calls[i].overridden})

\* The answers a facet query with a provided body can give: the provided
\* body's, or, for an overridden one, its own value or an error.
Answers(facet, args) ==
    {[overridden |-> FALSE, ret |-> Ok(d)] : d \in DefaultImpl(facet, args)}
    \cup (IF OverrideCount < MaxOverridden
          THEN {[overridden |-> TRUE, ret |-> Ok(v)] : v \in OverrideValues(facet)}
               \cup {[overridden |-> TRUE, ret |-> Err(facet)]}
          ELSE {})

\* The implementors of the required methods (no provided body): what
\* base_path and chain_spec answer, and whether database_config succeeds.
Sources ==
    [base_path : {Ok(None), Err("base_path")} \cup {Ok(Some(b)) : b \in BasePaths},
     chain_spec : {Err("chain_spec")} \cup {Ok(c) : c \in ChainSpecs},
     database_config : {"Ok", "Err"}]

\* The answer of a required method.
RequiredAnswers(facet, args) ==
    CASE facet = "base_path" -> {source.base_path}
      [] facet = "chain_spec" -> {source.chain_spec}
      [] facet = "database_config" ->
            IF source.database_config = "Ok"
            THEN {Ok([path |-> args[1], cache_size |-> args[2]])}
            ELSE {Err(facet)}

\* The results of app_dirs::get_app_root.
AppRootResults == {Ok(DefaultRoot), Err("AppDirsError")}

(***************************************************************************)
(* create_configuration (config.rs:218-284), one action per query          *)
(***************************************************************************)
\* A faulty variant: the cache size is left as the query returned it
CacheSize_Unset(o) == o

\* Some(self.database_cache_size()?.unwrap_or(128))
CacheSize(o) == Some(unwrap_or(o, 128))

\* self.max_runtime_instances()?.unwrap_or(8)
MaxRuntimeInstances(o) == unwrap_or(o, 8)

\* What a local variable or field is bound to, given the value its query
\* returned.
Bound(var, v) ==
    CASE var = "database_cache_size" -> CacheSize(v)
      [] var = "max_runtime_instances" -> MaxRuntimeInstances(v)
      [] OTHER -> v

\* A faulty variant: a failed query is made again instead of being returned
Query_Retrying(here, next, facet, args, answers, var) ==
    /\ pc = here
    /\ \E a \in answers :
          /\ calls' = Append(calls, [fn |-> facet, args |-> args,
                                     ret |-> a.ret, overridden |-> a.overridden])
          /\ pc' = IF IsErr(a.ret) THEN here ELSE next
          /\ outcome' = outcome
          /\ env' = IF IsErr(a.ret) THEN env ELSE (var :> a.ret[2]) @@ env
    /\ UNCHANGED <<source, platform, nameVars, flagVars, spanVars>>

\* One `self.<facet>(args)?`: the query is logged; an Err returns it from
\* create_configuration at once, an Ok value is bound to `var`.
Query(here, next, facet, args, answers, var) ==
    /\ pc = here
    /\ \E a \in answers :
          /\ calls' = Append(calls, [fn |-> facet, args |-> args,
                                     ret |-> a.ret, overridden |-> a.overridden])
          /\ IF IsErr(a.ret)
             THEN /\ pc' = "done"
                  /\ outcome' = a.ret
                  /\ env' = env
             ELSE /\ pc' = next
                  /\ outcome' = outcome
                  /\ env' = (var :> Bound(var, a.ret[2])) @@ env
    /\ UNCHANGED <<source, platform, nameVars, flagVars, spanVars>>

Required(facet, args) ==
    {[overridden |-> FALSE, ret |-> r] : r \in RequiredAnswers(facet, args)}

\* let chain_spec = self.chain_spec::<C>()?;
chain_spec ==
    Query("chain_spec", "is_dev", "chain_spec", <<>>,
          Required("chain_spec", <<>>), "chain_spec")

\* let is_dev = self.is_dev()?;
is_dev ==
    Query("is_dev", "get_app_root", "is_dev", <<>>,
          Answers("is_dev", <<>>), "is_dev")

\* let default_config_dir = app_dirs::get_app_root(..).expect("..; qed");
get_app_root ==
    /\ pc = "get_app_root"
    /\ \E r \in {platform} :
          /\ calls' = Append(calls, [fn |-> "get_app_root", args |-> <<>>,
                                     ret |-> r, overridden |-> FALSE])
          /\ IF IsErr(r)
             THEN /\ pc' = "done"
                  /\ outcome' = <<"Panic", "app directories exist on all supported platforms; qed">>
                  /\ env' = env
             ELSE /\ pc' = "base_path"
                  /\ outcome' = outcome
                  /\ env' = ("default_config_dir" :> r[2]) @@ env
    /\ UNCHANGED <<source, platform, nameVars, flagVars, spanVars>>

\* self.base_path()?.unwrap_or(&default_config_dir).join("chains").join(chain_spec.id())
ConfigDir(base) ==
    PathJoin(PathJoin(unwrap_or(base, env["default_config_dir"]), CHAINS),
             env["chain_spec"].id)

\* config_dir.join(DEFAULT_NETWORK_CONFIG_PATH)
NetConfigDir(config_dir) == PathJoin(config_dir, DEFAULT_NETWORK_CONFIG_PATH)

\* let config_dir = ..; let net_config_dir = ..; let client_id = C::client_id();
base_path ==
    /\ pc = "base_path"
    /\ \E a \in Required("base_path", <<>>) :
          /\ calls' = Append(calls, [fn |-> "base_path", args |-> <<>>,
                                     ret |-> a.ret, overridden |-> FALSE])
          /\ IF IsErr(a.ret)
             THEN /\ pc' = "done"
                  /\ outcome' = a.ret
                  /\ env' = env
             ELSE /\ pc' = "database_cache_size"
                  /\ outcome' = outcome
                  /\ env' = [x \in {"config_dir", "net_config_dir", "client_id"} |->
                                CASE x = "config_dir" -> ConfigDir(a.ret[2])
                                  [] x = "net_config_dir" -> NetConfigDir(ConfigDir(a.ret[2]))
                                  [] x = "client_id" -> "client_id"] @@ env
    /\ UNCHANGED <<source, platform, nameVars, flagVars, spanVars>>

database_cache_size ==
    Query("database_cache_size", "node_key", "database_cache_size", <<>>,
          Answers("database_cache_size", <<>>), "database_cache_size")

\* let node_key = self.node_key(&net_config_dir)?;
NodeKeyArgs == <<env["net_config_dir"]>>

node_key ==
    Query("node_key", "roles", "node_key", NodeKeyArgs,
          Answers("node_key", NodeKeyArgs), "node_key")

\* let roles = self.roles(is_dev)?;
RolesArgs == <<env["is_dev"]>>

roles ==
    Query("roles", "max_runtime_instances", "roles", RolesArgs,
          Answers("roles", RolesArgs), "roles")

max_runtime_instances ==
    Query("max_runtime_instances", "transaction_pool", "max_runtime_instances", <<>>,
          Answers("max_runtime_instances", <<>>), "max_runtime_instances")

\* The fields of the struct literal, evaluated in the order they are written
\* (config.rs:250-280); node_name is queried while the arguments of
\* network_config are evaluated.

transaction_pool ==
    Query("transaction_pool", "node_name", "transaction_pool", <<>>,
          Answers("transaction_pool", <<>>), "transaction_pool")

query_node_name ==
    Query("node_name", "network_config", "node_name", <<>>,
          Answers("node_name", <<>>), "node_name")

NetworkConfigArgs ==
    <<env["chain_spec"], env["is_dev"], env["net_config_dir"], env["client_id"],
      env["node_name"], env["node_key"]>>

network_config ==
    Query("network_config", "keystore_config", "network_config", NetworkConfigArgs,
          Answers("network_config", NetworkConfigArgs), "network")

KeystoreConfigArgs == <<env["config_dir"]>>

keystore_config ==
    Query("keystore_config", "database_config", "keystore_config", KeystoreConfigArgs,
          Answers("keystore_config", KeystoreConfigArgs), "keystore")

DatabaseConfigArgs == <<env["config_dir"], env["database_cache_size"]>>

database_config ==
    Query("database_config", "state_cache_size", "database_config", DatabaseConfigArgs,
          Required("database_config", DatabaseConfigArgs), "database")

state_cache_size ==
    Query("state_cache_size", "state_cache_child_ratio", "state_cache_size", <<>>,
          Answers("state_cache_size", <<>>), "state_cache_size")

state_cache_child_ratio ==
    Query("state_cache_child_ratio", "pruning", "state_cache_child_ratio", <<>>,
          Answers("state_cache_child_ratio", <<>>), "state_cache_child_ratio")

\* A faulty variant: pruning is asked as if the node were never a development node
PruningArgs_NotDev == <<FALSE, env["roles"]>>

PruningArgs == <<env["is_dev"], env["roles"]>>

pruning ==
    Query("pruning", "wasm_method", "pruning", PruningArgs,
          Answers("pruning", PruningArgs), "pruning")

wasm_method ==
    Query("wasm_method", "execution_strategies", "wasm_method", <<>>,
          Answers("wasm_method", <<>>), "wasm_method")

ExecutionStrategiesArgs == <<env["is_dev"]>>

execution_strategies ==
    Query("execution_strategies", "rpc_http", "execution_strategies", ExecutionStrategiesArgs,
          Answers("execution_strategies", ExecutionStrategiesArgs), "execution_strategies")

rpc_http ==
    Query("rpc_http", "rpc_ws", "rpc_http", <<>>,
          Answers("rpc_http", <<>>), "rpc_http")

rpc_ws ==
    Query("rpc_ws", "rpc_ws_max_connections", "rpc_ws", <<>>,
          Answers("rpc_ws", <<>>), "rpc_ws")

rpc_ws_max_connections ==
    Query("rpc_ws_max_connections", "rpc_cors", "rpc_ws_max_connections", <<>>,
          Answers("rpc_ws_max_connections", <<>>), "rpc_ws_max_connections")

RpcCorsArgs == <<env["is_dev"]>>

rpc_cors ==
    Query("rpc_cors", "prometheus_config", "rpc_cors", RpcCorsArgs,
          Answers("rpc_cors", RpcCorsArgs), "rpc_cors")

prometheus_config ==
    Query("prometheus_config", "telemetry_endpoints", "prometheus_config", <<>>,
          Answers("prometheus_config", <<>>), "prometheus_config")

TelemetryEndpointsArgs == <<env["chain_spec"]>>

telemetry_endpoints ==
    Query("telemetry_endpoints", "telemetry_external_transport", "telemetry_endpoints", TelemetryEndpointsArgs,
          Answers("telemetry_endpoints", TelemetryEndpointsArgs), "telemetry_endpoints")

telemetry_external_transport ==
    Query("telemetry_external_transport", "default_heap_pages", "telemetry_external_transport", <<>>,
          Answers("telemetry_external_transport", <<>>), "telemetry_external_transport")

default_heap_pages ==
    Query("default_heap_pages", "offchain_worker", "default_heap_pages", <<>>,
          Answers("default_heap_pages", <<>>), "default_heap_pages")

OffchainWorkerArgs == <<env["roles"]>>

offchain_worker ==
    Query("offchain_worker", "sentry_mode", "offchain_worker", OffchainWorkerArgs,
          Answers("offchain_worker", OffchainWorkerArgs), "offchain_worker")

sentry_mode ==
    Query("sentry_mode", "force_authoring", "sentry_mode", <<>>,
          Answers("sentry_mode", <<>>), "sentry_mode")

force_authoring ==
    Query("force_authoring", "disable_grandpa", "force_authoring", <<>>,
          Answers("force_authoring", <<>>), "force_authoring")

disable_grandpa ==
    Query("disable_grandpa", "dev_key_seed", "disable_grandpa", <<>>,
          Answers("disable_grandpa", <<>>), "disable_grandpa")

DevKeySeedArgs == <<env["is_dev"]>>

dev_key_seed ==
    Query("dev_key_seed", "tracing_targets", "dev_key_seed", DevKeySeedArgs,
          Answers("dev_key_seed", DevKeySeedArgs), "dev_key_seed")

tracing_targets ==
    Query("tracing_targets", "tracing_receiver", "tracing_targets", <<>>,
          Answers("tracing_targets", <<>>), "tracing_targets")

tracing_receiver ==
    Query("tracing_receiver", "return", "tracing_receiver", <<>>,
          Answers("tracing_receiver", <<>>), "tracing_receiver")

\* The fields of Configuration that create_configuration fills from `self`.
ConfigurationFields ==
    {"roles", "transaction_pool", "network", "keystore", "database",
     "state_cache_size", "state_cache_child_ratio", "pruning", "wasm_method",
     "execution_strategies", "rpc_http", "rpc_ws", "rpc_ws_max_connections",
     "rpc_cors", "prometheus_config", "telemetry_endpoints",
     "telemetry_external_transport", "default_heap_pages", "offchain_worker",
     "sentry_mode", "force_authoring", "disable_grandpa", "dev_key_seed",
     "tracing_targets", "tracing_receiver", "chain_spec", "max_runtime_instances"}

\* Ok(Configuration { .. }): impl_name and impl_version come from C, the
\* task executor from the caller, the other fields from the queries.
Configuration ==
    [f \in ConfigurationFields |-> env[f]]
    @@ [impl_name |-> "impl_name", impl_version |-> "impl_version",
        task_executor |-> "task_executor"]

return ==
    /\ pc = "return"
    /\ pc' = "done"
    /\ outcome' = Ok(Configuration)
    /\ UNCHANGED <<source, platform, env, calls, nameVars, flagVars, spanVars>>

CfgInit ==
    /\ source \in Sources
    /\ platform \in AppRootResults
    /\ pc = "chain_spec"
    /\ env = <<>>
    /\ calls = <<>>
    /\ outcome = <<"Running">>

CfgNext ==
    \/ chain_spec \/ is_dev \/ get_app_root \/ base_path \/ database_cache_size
    \/ node_key \/ roles \/ max_runtime_instances
    \/ transaction_pool \/ query_node_name \/ network_config
    \/ keystore_config \/ database_config \/ state_cache_size
    \/ state_cache_child_ratio \/ pruning \/ wasm_method
    \/ execution_strategies \/ rpc_http \/ rpc_ws \/ rpc_ws_max_connections
    \/ rpc_cors \/ prometheus_config \/ telemetry_endpoints
    \/ telemetry_external_transport \/ default_heap_pages \/ offchain_worker
    \/ sentry_mode \/ force_authoring \/ disable_grandpa \/ dev_key_seed
    \/ tracing_targets \/ tracing_receiver
    \/ return

(***************************************************************************)
(* generate_node_name (config.rs:297-308)                                  *)
(***************************************************************************)
\* How many candidates the name source is asked for in one call of the model.
MaxSamples == 4

\* let node_name = Generator::with_naming(Name::Numbered).next().unwrap();
Sample ==
    /\ gpc = "loop"
    /\ Len(sampled) < MaxSamples
    /\ \E c \in Candidates :
          /\ node_name' = c
          /\ sampled' = Append(sampled, c)
    /\ gpc' = "check"
    /\ UNCHANGED <<result, cfgVars, flagVars, spanVars>>

\* A faulty variant: a name of exactly the maximum length is accepted
Accepts_Inclusive(name) == chars_count(name) <= NODE_NAME_MAX_LENGTH

\* if count < NODE_NAME_MAX_LENGTH
Accepts(name) == chars_count(name) < NODE_NAME_MAX_LENGTH

\* let count = ..; if count < NODE_NAME_MAX_LENGTH { break node_name; }
Check ==
    /\ gpc = "check"
    /\ IF Accepts(node_name)
       THEN gpc' = "done" /\ result' = node_name
       ELSE gpc' = "loop" /\ result' = result
    /\ UNCHANGED <<node_name, sampled, cfgVars, flagVars, spanVars>>

NameInit ==
    /\ gpc = "loop"
    /\ node_name = <<>>
    /\ sampled = <<>>
    /\ result = <<>>

NameNext == Sample \/ Check

(***************************************************************************)
(* Properties of create_configuration                                      *)
(***************************************************************************)
CallsOf(f)  == {i \in DOMAIN calls : calls[i].fn = f}
Called(f)   == CallsOf(f) # {}
TheCall(f)  == calls[CHOOSE i \in CallsOf(f) : TRUE]
Succeeded   == outcome[1] = "Ok"
Finished    == pc = "done"

\* The string B/chains/<chain-id> and the string <that>/network.
ChainsDirOf(B, id) == B \o <<"/">> \o CHAINS \o <<"/">> \o id
NetworkDirOf(B, id) == ChainsDirOf(B, id) \o <<"/">> \o DEFAULT_NETWORK_CONFIG_PATH

\* The root the directories are derived from: the caller's base path, or
\* the platform default when there is none.
RootOf == unwrap_or(source.base_path[2], DefaultRoot)

SamePath(p, q) == Components(p) = Components(q)

DirectoriesAsClaimed ==
    LET id == source.chain_spec[2].id
    IN  /\ SamePath(TheCall("keystore_config").args[1], ChainsDirOf(RootOf, id))
        /\ SamePath(TheCall("database_config").args[1], ChainsDirOf(RootOf, id))
        /\ SamePath(TheCall("node_key").args[1], NetworkDirOf(RootOf, id))
        /\ SamePath(TheCall("network_config").args[3], NetworkDirOf(RootOf, id))

\* C1 (as claimed): for every chain id and every base path B (the caller's,
\* or the platform default when the caller supplies none), a successful
\* create_configuration passes B/chains/<chain-id> to keystore_config and
\* database_config and B/chains/<chain-id>/network to node_key and
\* network_config.
C1_DirectoriesForEveryChainId == Succeeded => DirectoriesAsClaimed

\* The same for the chain ids that are not absolute paths, which is where
\* the code and C1 agree.
DirectoriesForRelativeChainId ==
    (Succeeded /\ ~IsAbsolute(source.chain_spec[2].id)) => DirectoriesAsClaimed

\* C2: the cache size handed to database_config is Some(the override) when
\* database_cache_size supplies one and Some(128) otherwise; the returned
\* max_runtime_instances is the override when supplied and 8 otherwise; and
\* when no optional facet is overridden every field of the returned
\* Configuration is its documented default.
DocumentedDefaults ==
    [roles |-> "FULL",
     transaction_pool |-> Default("TransactionPoolOptions"),
     keystore |-> "InMemory",
     state_cache_size |-> 0,
     state_cache_child_ratio |-> None,
     pruning |-> Default("PruningMode"),
     wasm_method |-> Default("WasmExecutionMethod"),
     execution_strategies |-> Default("ExecutionStrategies"),
     rpc_http |-> None,
     rpc_ws |-> None,
     rpc_ws_max_connections |-> None,
     rpc_cors |-> Some(<<>>),
     prometheus_config |-> None,
     telemetry_external_transport |-> None,
     default_heap_pages |-> None,
     offchain_worker |-> FALSE,
     sentry_mode |-> FALSE,
     force_authoring |-> FALSE,
     disable_grandpa |-> FALSE,
     dev_key_seed |-> None,
     tracing_targets |-> None,
     tracing_receiver |-> Default("TracingReceiver"),
     max_runtime_instances |-> 8]

C2_DefaultsAndOverrides ==
    /\ Called("database_config") =>
          LET o == TheCall("database_cache_size").ret[2]
              handed == TheCall("database_config").args[2]
          IN  /\ handed[1] = "Some"
              /\ handed[2] = (IF o[1] = "Some" THEN o[2] ELSE 128)
    /\ Succeeded =>
          LET o == TheCall("max_runtime_instances").ret[2]
          IN  outcome[2].max_runtime_instances = (IF o[1] = "Some" THEN o[2] ELSE 8)
    /\ (Succeeded /\ OverrideCount = 0) =>
          LET c == outcome[2]
          IN  /\ \A f \in DOMAIN DocumentedDefaults : c[f] = DocumentedDefaults[f]
              /\ c.database.cache_size = Some(128)
              /\ c.telemetry_endpoints = source.chain_spec[2].telemetry_endpoints
              /\ c.network.node_key = Default("NodeKeyConfig")
              /\ c.network.node_name \in Candidates
              /\ Len(c.network.node_name) < 32

C2_Witness ==
    /\ Succeeded
    /\ TheCall("database_cache_size").ret = Ok(Some(256))
    /\ TheCall("database_config").args[2] = Some(256)
    /\ outcome[2].max_runtime_instances = 8

\* C3: an error of chain_spec or database_config is what create_configuration
\* returns (and no Configuration); the failing query is made at most once;
\* and when chain_spec fails nothing else is queried, the platform
\* directory service included.
C3_ErrorsPropagate ==
    /\ \A f \in {"chain_spec", "database_config"} :
          /\ Cardinality(CallsOf(f)) <= 1
          /\ \A i \in CallsOf(f) :
                IsErr(calls[i].ret) =>
                    /\ Finished
                    /\ outcome = calls[i].ret
                    /\ i = Len(calls)
    /\ (Called("chain_spec") /\ IsErr(TheCall("chain_spec").ret)) => Len(calls) = 1

C3_Witness ==
    /\ Finished
    /\ Called("database_config")
    /\ outcome = Err("database_config")

\* C4 (as claimed): when the platform application-directory service cannot
\* determine a default root, create_configuration ends with an error result
\* (not with a substituted directory, not with a crash).
C4_PlatformFailureIsAnErrorResult ==
    (Called("get_app_root") /\ IsErr(TheCall("get_app_root").ret))
        => (Finished /\ outcome[1] = "Err")

\* C9 (as claimed): when base_path returns a path, a failure of the platform
\* application-directory service does not decide the outcome of
\* create_configuration.
C9_BasePathMakesPlatformIrrelevant ==
    (Finished /\ IsOk(source.base_path) /\ source.base_path[2][1] = "Some")
        => outcome[1] # "Panic"

\* C10: chain_spec, is_dev, node_key and roles are each queried at most
\* once and in that order; by the time a facet that depends on them is
\* queried, and in every call that returns a Configuration, each has been
\* queried exactly once; and the dependent facets
\* receive the values those queries returned, which are also the roles and
\* chain_spec of the returned Configuration.
Leaders == <<"chain_spec", "is_dev", "node_key", "roles">>

Dependents ==
    {"network_config", "pruning", "execution_strategies", "rpc_cors",
     "dev_key_seed", "offchain_worker", "telemetry_endpoints"}

IndexOf(f) == CHOOSE i \in CallsOf(f) : TRUE

C10_OrderAndValues ==
    /\ \A k \in 1..4 : Cardinality(CallsOf(Leaders[k])) <= 1
    /\ \A k \in 1..3 :
          Called(Leaders[k + 1]) =>
              (Called(Leaders[k]) /\ IndexOf(Leaders[k]) < IndexOf(Leaders[k + 1]))
    /\ \A d \in Dependents : \A i \in CallsOf(d) :
          \A k \in 1..4 : Called(Leaders[k]) /\ IndexOf(Leaders[k]) < i
    /\ Called("roles") => TheCall("roles").args[1] = TheCall("is_dev").ret[2]
    /\ \A i \in CallsOf("network_config") :
          /\ calls[i].args[1] = TheCall("chain_spec").ret[2]
          /\ calls[i].args[2] = TheCall("is_dev").ret[2]
    /\ \A i \in CallsOf("pruning") :
          /\ calls[i].args[1] = TheCall("is_dev").ret[2]
          /\ calls[i].args[2] = TheCall("roles").ret[2]
    /\ \A d \in {"execution_strategies", "rpc_cors", "dev_key_seed"} :
          \A i \in CallsOf(d) : calls[i].args[1] = TheCall("is_dev").ret[2]
    /\ \A i \in CallsOf("offchain_worker") :
          calls[i].args[1] = TheCall("roles").ret[2]
    /\ \A i \in CallsOf("telemetry_endpoints") :
          calls[i].args[1] = TheCall("chain_spec").ret[2]
    /\ Succeeded =>
          /\ \A k \in 1..4 : Cardinality(CallsOf(Leaders[k])) = 1
          /\ outcome[2].roles = TheCall("roles").ret[2]
          /\ outcome[2].chain_spec = TheCall("chain_spec").ret[2]

C10_Witness ==
    /\ Succeeded
    /\ TheCall("is_dev").ret = Ok(TRUE)
    /\ TheCall("roles").ret = Ok("AUTHORITY")
    /\ TheCall("pruning").args = <<TRUE, "AUTHORITY">>

(***************************************************************************)
(* WASM_TRACING_ENABLED (tracing/src/lib.rs:43-45)                         *)
(***************************************************************************)
\* A faulty variant: the flag is constructed set
WASM_TRACING_ENABLED_INITIAL_Set == TRUE

\* AtomicBool::new(false)
WASM_TRACING_ENABLED_INITIAL == FALSE

\* The threads that read the flag, and how many loads of each are followed.
Threads == {"t1", "t2", "t3"}
MaxLoads == 2

\* WASM_TRACING_ENABLED.store(true, ..), once, while the process initializes.
Store ==
    /\ stores = 0
    /\ WASM_TRACING_ENABLED' = TRUE
    /\ stores' = stores + 1
    /\ UNCHANGED <<loads, cfgVars, nameVars, spanVars>>

\* WASM_TRACING_ENABLED.load(..) on thread t
Load(t) ==
    /\ Len(loads[t]) < MaxLoads
    /\ loads' = [loads EXCEPT ![t] = Append(@, WASM_TRACING_ENABLED)]
    /\ UNCHANGED <<WASM_TRACING_ENABLED, stores, cfgVars, nameVars, spanVars>>

FlagInit ==
    /\ WASM_TRACING_ENABLED = WASM_TRACING_ENABLED_INITIAL
    /\ stores = 0
    /\ loads = [t \in Threads |-> <<>>]

(***************************************************************************)
(* tracing_span!, enter_span!, if_tracing! (tracing/src/lib.rs:60-103)     *)
(***************************************************************************)
\* Statements. The two macro invocations are expanded before a run; `let`
\* and `block` are what they expand to.
Stmt(op, arg, body) == [op |-> op, arg |-> arg, body |-> body]
Eff(e)              == Stmt("effect", e, <<>>)
Return(v)           == Stmt("return", v, <<>>)
Panic               == Stmt("panic", 0, <<>>)
Value(v)            == Stmt("value", v, <<>>)
TracingSpan(n, c)   == Stmt("tracing_span!", n, c)
EnterSpan(n)        == Stmt("enter_span!", n, <<>>)
Let(var, expr)      == Stmt("let", var, expr)
Block(c)            == Stmt("block", 0, c)

\* The expressions of the expansion: tracing::span!(Level::TRACE, $name),
\* __tracing_span__.enter(), and the empty block {}.
SpanNew(name) == <<"span!", name>>
SpanEnter     == <<"enter", "__tracing_span__">>
Unit          == <<"unit">>

\* A faulty variant: the expression is generated only while the flag is set
if_tracing_when_enabled(std, e) == IF std /\ WASM_TRACING_ENABLED THEN e ELSE Unit

\* if_tracing!: the expression with feature "std", {} without it.
if_tracing(std, e) == IF std THEN e ELSE Unit

\* enter_span!
enter_span(std, name) ==
    << Let("__tracing_span__", if_tracing(std, SpanNew(name))),
       Let("__tracing_guard__", if_tracing(std, SpanEnter)) >>

\* A faulty variant: the code is run only while the flag is set
tracing_span_when_enabled(std, name, code) ==
    IF WASM_TRACING_ENABLED THEN << Block(enter_span(std, name) \o code) >> ELSE <<>>

\* tracing_span!: a block of enter_span!($name) followed by the code.
tracing_span(std, name, code) == << Block(enter_span(std, name) \o code) >>

\* The builds a program is run in: with feature "std", without it, and with
\* the macros taken away (tracing_span!'s code as a plain block).
Builds == <<"std", "no_std", "unwrapped">>

RECURSIVE Compile(_, _)
Compile(build, code) ==
    IF code = <<>> THEN <<>>
    ELSE LET h == Head(code)
             first ==
                CASE h.op = "tracing_span!" ->
                        IF build = "unwrapped"
                        THEN << Block(Compile(build, h.body)) >>
                        ELSE tracing_span(build = "std", h.arg, Compile(build, h.body))
                  [] h.op = "enter_span!" ->
                        IF build = "unwrapped" THEN <<>>
                        ELSE enter_span(build = "std", h.arg)
                  [] OTHER -> << h >>
         IN  first \o Compile(build, Tail(code))

\* The number of statements of a program under test, nested ones included.
MaxStmts == 3

Leaves == {Eff(1), Eff(2), Return(7), Panic, EnterSpan("e")}

\* The codes of exactly n statements.
RECURSIVE Code(_)
Code(n) ==
    IF n = 0 THEN {<<>>}
    ELSE {<<l>> \o c : l \in Leaves, c \in Code(n - 1)}
         \cup UNION {{<<TracingSpan("in", c1)>> \o c2 : c1 \in Code(k), c2 \in Code(n - 1 - k)}
                     : k \in 0..(n - 1)}

\* A function whose body is tracing_span! { "fn"; <code>; 42 }.
Programs ==
    {<<TracingSpan("fn", c \o <<Value(42)>>)>> : c \in UNION {Code(n) : n \in 0..MaxStmts}}

Running  == mode = "run" /\ stack # <<>> /\ stack[Len(stack)].code # <<>>
Top      == stack[Len(stack)]
Next1    == Head(Top.code)
Advance(locals) ==
    [stack EXCEPT ![Len(stack)] = [code |-> Tail(Top.code), locals |-> locals]]

\* The span a name of the current scope is bound to (the latest binding).
Lookup(var) ==
    LET ls == Top.locals
        i == CHOOSE i \in DOMAIN ls :
                ls[i].var = var /\ \A j \in DOMAIN ls : ls[j].var = var => j <= i
    IN  ls[i]

NewId == Cardinality({i \in DOMAIN trace : trace[i][1] = "new"}) + 1

\* Compile the program for the next build and call it.
StartRun ==
    /\ mode = "idle"
    /\ run <= Len(Builds)
    /\ stack' = << [code |-> Compile(Builds[run], program), locals |-> <<>>] >>
    /\ mode' = "run"
    /\ UNCHANGED <<program, run, active, trace, effects, ret, runs,
                   flagVars, cfgVars, nameVars>>

\* A statement of the code with a side effect.
ExecEffect ==
    /\ Running /\ Next1.op = "effect"
    /\ effects' = Append(effects, Next1.arg)
    /\ stack' = Advance(Top.locals)
    /\ UNCHANGED <<program, run, mode, active, trace, ret, runs,
                   flagVars, cfgVars, nameVars>>

\* let <var> = <expr>;
ExecLet ==
    /\ Running /\ Next1.op = "let"
    /\ LET e == Next1.body
       IN  CASE e[1] = "span!" ->
                  /\ trace' = Append(trace, <<"new", NewId>>)
                  /\ active' = active
                  /\ stack' = Advance(Append(Top.locals,
                                 [var |-> Next1.arg, kind |-> "span", id |-> NewId]))
             [] e[1] = "enter" ->
                  LET span == Lookup(e[2])
                  IN  /\ trace' = Append(trace, <<"enter", span.id>>)
                      /\ active' = Append(active, span.id)
                      /\ stack' = Advance(Append(Top.locals,
                                     [var |-> Next1.arg, kind |-> "guard", id |-> span.id]))
             [] OTHER ->
                  /\ trace' = trace
                  /\ active' = active
                  /\ stack' = Advance(Append(Top.locals,
                                 [var |-> Next1.arg, kind |-> "unit", id |-> 0]))
    /\ UNCHANGED <<program, run, mode, effects, ret, runs,
                   flagVars, cfgVars, nameVars>>

\* { <code> }: a new scope
ExecBlock ==
    /\ Running /\ Next1.op = "block"
    /\ stack' = Append(Advance(Top.locals), [code |-> Next1.body, locals |-> <<>>])
    /\ UNCHANGED <<program, run, mode, active, trace, effects, ret, runs,
                   flagVars, cfgVars, nameVars>>

\* The tail expression of the function body.
ExecValue ==
    /\ Running /\ Next1.op = "value"
    /\ ret' = <<"value", Next1.arg>>
    /\ stack' = Advance(Top.locals)
    /\ UNCHANGED <<program, run, mode, active, trace, effects, runs,
                   flagVars, cfgVars, nameVars>>

\* return <v>; leaves every scope of the function.
ExecReturn ==
    /\ Running /\ Next1.op = "return"
    /\ ret' = <<"return", Next1.arg>>
    /\ mode' = "return"
    /\ UNCHANGED <<program, run, stack, active, trace, effects, runs,
                   flagVars, cfgVars, nameVars>>

\* panic!(): the scopes are unwound.
ExecPanic ==
    /\ Running /\ Next1.op = "panic"
    /\ ret' = <<"panic">>
    /\ mode' = "panic"
    /\ UNCHANGED <<program, run, stack, active, trace, effects, runs,
                   flagVars, cfgVars, nameVars>>

Leaving == stack # <<>> /\ (mode \in {"return", "panic"} \/ (mode = "run" /\ Top.code = <<>>))

\* A scope is left: its locals are dropped in the reverse order of their
\* declaration. Dropping the guard exits the span, dropping the span closes it.
DropLocal ==
    /\ Leaving /\ Top.locals # <<>>
    /\ LET l == Top.locals[Len(Top.locals)]
       IN  /\ stack' = [stack EXCEPT ![Len(stack)].locals = SubSeq(@, 1, Len(@) - 1)]
           /\ CASE l.kind = "guard" ->
                      /\ trace' = Append(trace, <<"exit", l.id>>)
                      /\ active' = SelectSeq(active, LAMBDA x : x # l.id)
                [] l.kind = "span" ->
                      /\ trace' = Append(trace, <<"close", l.id>>)
                      /\ active' = active
                [] OTHER ->
                      /\ trace' = trace
                      /\ active' = active
    /\ UNCHANGED <<program, run, mode, effects, ret, runs,
                   flagVars, cfgVars, nameVars>>

\* The scope is gone; with the last scope the run is over and is recorded.
LeaveScope ==
    /\ Leaving /\ Top.locals = <<>>
    /\ stack' = SubSeq(stack, 1, Len(stack) - 1)
    /\ IF Len(stack) = 1
       THEN /\ runs' = Append(runs, [build |-> Builds[run], effects |-> effects,
                                     ret |-> ret, trace |-> trace, left |-> active,
                                     enabled |-> WASM_TRACING_ENABLED])
            /\ run' = run + 1
            /\ mode' = "idle"
            /\ active' = <<>>
            /\ trace' = <<>>
            /\ effects' = <<>>
            /\ ret' = <<"none">>
       ELSE UNCHANGED <<run, mode, active, trace, effects, ret, runs>>
    /\ UNCHANGED <<program, flagVars, cfgVars, nameVars>>

SpanInit ==
    /\ program \in Programs
    /\ run = 1
    /\ stack = <<>>
    /\ mode = "idle"
    /\ active = <<>>
    /\ trace = <<>>
    /\ effects = <<>>
    /\ ret = <<"none">>
    /\ runs = <<>>

SpanNext ==
    \/ StartRun \/ ExecEffect \/ ExecLet \/ ExecBlock \/ ExecValue
    \/ ExecReturn \/ ExecPanic \/ DropLocal \/ LeaveScope

(***************************************************************************)
(* Specifications                                                          *)
(***************************************************************************)
CfgIdle ==
    /\ source = [base_path |-> Ok(None), chain_spec |-> Err("chain_spec"),
                 database_config |-> "Err"]
    /\ platform = Err("AppDirsError")
    /\ pc = "idle" /\ env = <<>> /\ calls = <<>> /\ outcome = <<"Idle">>

NameIdle == gpc = "idle" /\ node_name = <<>> /\ sampled = <<>> /\ result = <<>>

SpanIdle ==
    /\ program = <<>> /\ run = Len(Builds) + 1 /\ stack = <<>> /\ mode = "idle"
    /\ active = <<>> /\ trace = <<>> /\ effects = <<>> /\ ret = <<"none">>
    /\ runs = <<>>

\* One call of create_configuration.
InitConfig == CfgInit /\ NameIdle /\ FlagInit /\ SpanIdle

SpecConfig == InitConfig /\ [][CfgNext]_vars

\* One call of generate_node_name.
InitName == NameInit /\ CfgIdle /\ FlagInit /\ SpanIdle

SpecName == InitName /\ [][NameNext]_vars

\* The flag, its one writer and its readers.
FlagNext == Store \/ \E t \in Threads : Load(t)

InitFlag == FlagInit /\ CfgIdle /\ NameIdle /\ SpanIdle

SpecFlag == InitFlag /\ [][FlagNext]_vars

\* A program run in each build, while the flag may be set at any moment.
InitSpans == SpanInit /\ FlagInit /\ CfgIdle /\ NameIdle

NextSpans == SpanNext \/ Store

SpecSpans == InitSpans /\ [][NextSpans]_vars

(***************************************************************************)
(* Properties of generate_node_name                                        *)
(***************************************************************************)
LongOnes(cs) == \A i \in DOMAIN cs : Len(cs[i]) >= 32

\* C5: the returned name has fewer than 32 characters and is the first
\* candidate that short; no candidate is asked for after one that short
\* has appeared; and the call has not returned while every candidate was
\* 32 characters or longer.
C5_NodeNameShort ==
    /\ gpc = "done" =>
          /\ Len(result) < 32
          /\ sampled # <<>>
          /\ result = sampled[Len(sampled)]
          /\ LongOnes(SubSeq(sampled, 1, Len(sampled) - 1))
    /\ gpc = "check" => LongOnes(SubSeq(sampled, 1, Len(sampled) - 1))
    /\ gpc = "loop" => (LongOnes(sampled) /\ result = <<>>)

C5_Witness ==
    /\ gpc = "done"
    /\ Len(sampled) = 3
    /\ Len(sampled[1]) = 32
    /\ Len(result) = 31

RECURSIVE EffectsOf(_)
EffectsOf(code) ==
    IF code = <<>> THEN <<>>
    ELSE LET h == Head(code)
         IN  (CASE h.op = "effect" -> <<h.arg>>
                [] h.op = "tracing_span!" -> EffectsOf(h.body)
                [] OTHER -> <<>>) \o EffectsOf(Tail(code))

IsPrefix(a, b) == Len(a) <= Len(b) /\ a = SubSeq(b, 1, Len(a))

\* C7: the run with feature "std", the run without it and the run of the
\* unwrapped code end with the same result and the same sequence of side
\* effects, whatever the flag is; no side effect of the code is repeated or
\* reordered, and a run that reaches the end of the code has had each of
\* them exactly once.
C7_SameResultAndEffects ==
    /\ IsPrefix(effects, EffectsOf(program))
    /\ \A i \in DOMAIN runs :
          /\ runs[i].ret # <<"none">>
          /\ IsPrefix(runs[i].effects, EffectsOf(program))
          /\ runs[i].ret[1] = "value" => runs[i].effects = EffectsOf(program)
          /\ \A j \in DOMAIN runs :
                /\ runs[i].effects = runs[j].effects
                /\ runs[i].ret = runs[j].ret

C7_Witness ==
    /\ Len(runs) = 3
    /\ runs[1].ret = <<"value", 42>>
    /\ runs[1].effects = <<1, 2>>
    /\ Len(runs[1].trace) > 4
    /\ ~runs[1].enabled
    /\ runs[2].enabled

\* The spans the guards of the live scopes hold, outermost scope first.
RECURSIVE GuardIds(_)
GuardIds(frames) ==
    IF frames = <<>> THEN <<>>
    ELSE LET gs == SelectSeq(Head(frames).locals, LAMBDA l : l.kind = "guard")
         IN  [i \in DOMAIN gs |-> gs[i].id] \o GuardIds(Tail(frames))

\* The stack of entered spans a trace leaves, <<-1>> if a span is exited
\* that is not the one entered last.
RECURSIVE Replay(_, _)
Replay(tr, st) ==
    IF tr = <<>> \/ st = <<-1>> THEN st
    ELSE LET ev == Head(tr)
         IN  CASE ev[1] = "enter" -> Replay(Tail(tr), Append(st, ev[2]))
               [] ev[1] = "exit" ->
                    IF st # <<>> /\ st[Len(st)] = ev[2]
                    THEN Replay(Tail(tr), SubSeq(st, 1, Len(st) - 1))
                    ELSE <<-1>>
               [] OTHER -> Replay(Tail(tr), st)

Count(tr, kind, id) == Cardinality({i \in DOMAIN tr : tr[i] = <<kind, id>>})

\* C8: with feature "std", enter_span! has created and entered its span
\* whatever the flag is; the span is entered for as long as its scope is
\* live; spans are exited in the reverse order of their entry; and when the
\* function has been left, by its end, by return or by a panic, every span
\* entered has been exited exactly once and none is still entered.
C8_SpanScoped ==
    /\ (mode # "idle" /\ Builds[run] = "std") =>
          /\ \A f \in DOMAIN stack : \A k \in DOMAIN stack[f].locals :
                LET l == stack[f].locals[k]
                IN  /\ l.var = "__tracing_span__" => l.kind = "span"
                    /\ l.var = "__tracing_guard__" => l.kind = "guard"
          /\ active = GuardIds(stack)
          /\ Replay(trace, <<>>) = active
    /\ \A i \in DOMAIN runs :
          runs[i].build = "std" =>
             /\ runs[i].left = <<>>
             /\ Replay(runs[i].trace, <<>>) = <<>>
             /\ \E k \in DOMAIN runs[i].trace : runs[i].trace[k][1] = "enter"
             /\ \A k \in DOMAIN runs[i].trace :
                   LET id == runs[i].trace[k][2]
                   IN  /\ Count(runs[i].trace, "new", id) = 1
                       /\ Count(runs[i].trace, "enter", id) = 1
                       /\ Count(runs[i].trace, "exit", id) = 1

C8_Witness ==
    /\ runs # <<>>
    /\ runs[1].build = "std"
    /\ runs[1].ret = <<"panic">>
    /\ ~runs[1].enabled
    /\ \E a, b \in 1..Len(runs[1].trace) :
          /\ a < b
          /\ runs[1].trace[a] = <<"exit", 2>>
          /\ runs[1].trace[b] = <<"exit", 1>>

====
